---- MODULE Spec2Model ----
(***************************************************************************)
(* Model of src/app.py: the password-gated regulation search page.         *)
(*                                                                         *)
(* Text values whose characters matter (std_id, me_id, names, the search   *)
(* query) are sequences of one-character strings.  Python's None is the    *)
(* string None below; the empty Python string is "".                       *)
(***************************************************************************)
EXTENDS Integers, Sequences, FiniteSets, TLC

\* ------------------------------------------------------------------ bounds
MaxId == 3          \* ids of regulations_map rows: 1..MaxId
MaxResults == 2     \* rows an RPC answers with in the model
MaxLen == 4         \* characters of a std_id given to create_sort_key
MaxRows == 3        \* rows of a table given to load_map_data

\* ------------------------------------------------------- characters, text
\* The characters of the model, in code-point order.  SuperTwo stands for
\* U+00B2: str.isdigit() accepts it and int() rejects it.
SuperTwo == "^2"
Alphabet == <<"-", ".", "0", "1", "2", "A", "a", "x", SuperTwo>>
Chars == {Alphabet[i] : i \in 1..Len(Alphabet)}
DecimalDigits == <<"0", "1", "2">>
IsDecimal(c) == \E i \in 1..Len(DecimalDigits) : DecimalDigits[i] = c
DigitValue(c) == (CHOOSE i \in 1..Len(DecimalDigits) : DecimalDigits[i] = c) - 1
CharOrd(c) == CHOOSE i \in 1..Len(Alphabet) : Alphabet[i] = c

\* str.isdigit() of one character
CharIsDigit(c) == IsDecimal(c) \/ c = SuperTwo

\* str.isdigit(): non-empty and every character a digit
IsDigit(p) == Len(p) > 0 /\ \A i \in 1..Len(p) : CharIsDigit(p[i])

\* int(p) of a part that passed isdigit(): defined when every character is decimal
IntRaises(p) == \E i \in 1..Len(p) : ~IsDecimal(p[i])

RECURSIVE IntOf(_)
IntOf(p) == IF p = <<>> THEN 0
            ELSE 10 * IntOf(SubSeq(p, 1, Len(p) - 1)) + DigitValue(p[Len(p)])

\* str.lower()
LowerChar(c) == IF c = "A" THEN "a" ELSE c
Lower(s) == [i \in 1..Len(s) |-> LowerChar(s[i])]

\* Python's < on str
RECURSIVE StrLess(_, _)
StrLess(a, b) ==
    IF b = <<>> THEN FALSE
    ELSE IF a = <<>> THEN TRUE
    ELSE IF a[1] # b[1] THEN CharOrd(a[1]) < CharOrd(b[1])
    ELSE StrLess(Tail(a), Tail(b))

\* Python's < on tuples of int
RECURSIVE TupleLess(_, _)
TupleLess(a, b) ==
    IF b = <<>> THEN FALSE
    ELSE IF a = <<>> THEN TRUE
    ELSE IF a[1] # b[1] THEN a[1] < b[1]
    ELSE TupleLess(Tail(a), Tail(b))

\* ------------------------------------------------------- create_sort_key
IsSeparator(c) == c = "." \/ c = "-"

\* re.split(r'[.-]', s): the parts between separators, empty parts kept
RECURSIVE SplitFrom(_, _)
SplitFrom(s, cur) ==
    IF s = <<>> THEN <<cur>>
    ELSE IF IsSeparator(s[1]) THEN <<cur>> \o SplitFrom(Tail(s), <<>>)
    ELSE SplitFrom(Tail(s), Append(cur, s[1]))

ReSplit(s) == SplitFrom(s, <<>>)

\* a faulty variant: the non-digit parts are kept as 0 instead of dropped
CreateSortKeyKeepAll(std_id_str) ==
    LET parts == ReSplit(std_id_str)
    IN  [i \in 1..Len(parts) |-> IF IsDigit(parts[i]) /\ ~IntRaises(parts[i])
                                 THEN IntOf(parts[i]) ELSE 0]

CreateSortKey(std_id_str) ==
    LET parts  == ReSplit(std_id_str)
        digits == SelectSeq(parts, IsDigit)
    IN  IF \E i \in 1..Len(digits) : IntRaises(digits[i])
        THEN <<0>>
        ELSE [i \in 1..Len(digits) |-> IntOf(digits[i])]

\* ---------------------------------------------------------- load_map_data
\* df.sort_values(by=['std_sort_key', 'me_id']): row a goes before row b
RowBefore(a, b) ==
    LET ka == CreateSortKey(a.std_id)
        kb == CreateSortKey(b.std_id)
    IN  \/ TupleLess(ka, kb)
        \/ ka = kb /\ StrLess(a.me_id, b.me_id)

\* stable insertion of row r into the sorted table t
RECURSIVE InsertRow(_, _)
InsertRow(t, r) ==
    IF t = <<>> THEN <<r>>
    ELSE IF RowBefore(r, t[Len(t)]) THEN Append(InsertRow(SubSeq(t, 1, Len(t) - 1), r), t[Len(t)])
    ELSE Append(t, r)

RECURSIVE SortRows(_)
SortRows(t) ==
    IF t = <<>> THEN <<>>
    ELSE InsertRow(SortRows(SubSeq(t, 1, Len(t) - 1)), t[Len(t)])

\* the table load_map_data returns for the rows the database answers with
LoadMapData(rows) == SortRows(rows)

\* ------------------------------------------------- the external database
None == "None"

\* Contents of regulations_map, row i of the table (i >= 1); a row that
\* admin_sync has uploaded without a public URL has pdf_url None.
ChNameSamples == << <<"A">>, <<"A">>, <<"x">>, <<"x">> >>
StdIdSamples == << <<"1", ".", "1", "0">>, <<"1", ".", "2">>,
                   <<"A", "-", "1", ".", "1">>, <<"A", "-", "1", ".", "2">> >>
StdNameSamples == << <<"a", "1">>, <<"a", "2">>, <<"x", "1">>, <<"x", "2">> >>
MeIdSamples == << <<"1">>, <<"2">>, <<"1">>, <<"1">> >>
PdfFilenameSamples == <<"a.pdf", "a.pdf", "b.pdf", "c.pdf">>
PdfUrlSamples == <<"https://s/a1.pdf", "https://s/a2.pdf", None, "">>
Sample(samples, i) == samples[((i - 1) % Len(samples)) + 1]

Row(i) == [id |-> i,
           ch_name |-> Sample(ChNameSamples, i),
           std_id |-> Sample(StdIdSamples, i),
           std_name |-> Sample(StdNameSamples, i),
           me_id |-> Sample(MeIdSamples, i),
           me_name |-> <<"x">>,
           pdf_filename |-> Sample(PdfFilenameSamples, i),
           pdf_url |-> Sample(PdfUrlSamples, i)]

\* regulations_map ... order("id") when the table holds rows 1..n
TableRows(n) == [i \in 1..n |-> Row(i)]

\* load_map_data's result for each size of the table
LoadedTable == [n \in 0..(MaxId + 1) |-> LoadMapData(TableRows(n))]

\* Rows of the body-text chunk table that match_chunks_all answers with
ChunkFilenameSamples == <<"a.pdf", "a.pdf", "b.pdf">>
ChunkPageSamples == <<0, 3, 2>>
ChunkIds == 1..Len(ChunkPageSamples)
Chunk(c) == [id |-> c,
             pdf_filename |-> Sample(ChunkFilenameSamples, c),
             page_num |-> Sample(ChunkPageSamples, c)]

\* sequences of distinct members of S, at most n long
RECURSIVE DistinctSeqs(_, _)
DistinctSeqs(S, n) ==
    IF n = 0 THEN {<<>>}
    ELSE LET shorter == DistinctSeqs(S, n - 1)
         IN  shorter \cup
             {Append(q, x) : <<q, x>> \in
                 {<<q, x>> \in shorter \X S : \A k \in 1..Len(q) : q[k] # x}}

\* what an RPC can do: raise, or answer with up to MaxResults rows
MapAnswers(n) ==
    {[raises |-> TRUE, data |-> <<>>]} \cup
    {[raises |-> FALSE, data |-> [k \in 1..Len(q) |-> [id |-> q[k]]]] :
        q \in DistinctSeqs(1..n, MaxResults)}
MapAnswersOf == [n \in 0..(MaxId + 1) |-> MapAnswers(n)]
ChunkAnswers ==
    {[raises |-> TRUE, data |-> <<>>]} \cup
    {[raises |-> FALSE, data |-> [k \in 1..Len(q) |-> Chunk(q[k])]] :
        q \in DistinctSeqs(ChunkIds, MaxResults)}

\* --------------------------------------------------------- configuration
\* st.secrets["app_security"]
CommonPassword == "hospital"
AdminPassword == "admin"
\* what a visitor types into the login form and into the admin field
Passwords == {"", "wrong", CommonPassword}
AdminPasswords == {"", "wrong", AdminPassword}
\* "password" not in st.session_state
Absent == "<absent>"

CombinedPdfUrl == "https://s/combined_regulations.pdf"

ModeTitle == "[AI] title search"
ModeBody == "[AI] body search"
ModeKeyword == "keyword search"
SearchModes == {ModeTitle, ModeBody, ModeKeyword}
SearchQueries == {<<>>, <<"A", ".", "1">>}

\* arguments of the two RPCs
MapMatchThresholdTenths == 3
MapMatchCount == 10
ChunkMatchThresholdTenths == 5
ChunkMatchCount == 5

\* ------------------------------------------------------------ run_ai_search
EncodeCall == [fn |-> "encode"]
MatchMapCall == [fn |-> "match_map", match_threshold |-> MapMatchThresholdTenths,
                 match_count |-> MapMatchCount]
MatchChunksCall == [fn |-> "match_chunks_all", match_threshold |-> ChunkMatchThresholdTenths,
                    match_count |-> ChunkMatchCount]

StatusNone == ""
StatusPending == "..."
StatusTitle == "searching titles"
StatusBody == "searching bodies"

\* run_ai_search(query_text, search_mode, _supabase, _model).  status is
\* session_state.ai_status at the call; encode_ok and answer are what the
\* embedding model and the RPC do if they are called.  The result holds the
\* returned pair (data, type), the external calls made in order, the new
\* ai_status and whether st.error was shown.
\* a faulty variant: the mode is not looked at, match_map is always called
RunAiSearchAlwaysMap(query_text, search_mode, has_supabase, has_model, status, encode_ok, answer) ==
    IF query_text = <<>> \/ ~has_supabase \/ ~has_model
    THEN [data |-> <<>>, type |-> None, calls |-> <<>>, ai_status |-> status, error |-> FALSE]
    ELSE IF ~encode_ok
    THEN [data |-> <<>>, type |-> None, calls |-> <<EncodeCall>>, ai_status |-> status, error |-> TRUE]
    ELSE IF answer.raises
    THEN [data |-> <<>>, type |-> None, calls |-> <<EncodeCall, MatchMapCall>>,
          ai_status |-> StatusTitle, error |-> TRUE]
    ELSE [data |-> answer.data, type |-> "map", calls |-> <<EncodeCall, MatchMapCall>>,
          ai_status |-> StatusTitle, error |-> FALSE]

\* a faulty variant: the except branch returns the mode's tag, not None
RunAiSearchTagsFailure(query_text, search_mode, has_supabase, has_model, status, encode_ok, answer) ==
    LET call == IF search_mode = ModeTitle THEN MatchMapCall ELSE MatchChunksCall
        st   == IF search_mode = ModeTitle THEN StatusTitle ELSE StatusBody
        ty   == IF search_mode = ModeTitle THEN "map" ELSE "chunks"
    IN  IF query_text = <<>> \/ ~has_supabase \/ ~has_model
        THEN [data |-> <<>>, type |-> None, calls |-> <<>>, ai_status |-> status, error |-> FALSE]
        ELSE IF ~encode_ok
        THEN [data |-> <<>>, type |-> ty, calls |-> <<EncodeCall>>, ai_status |-> status, error |-> TRUE]
        ELSE IF answer.raises
        THEN [data |-> <<>>, type |-> ty, calls |-> <<EncodeCall, call>>,
              ai_status |-> st, error |-> TRUE]
        ELSE [data |-> answer.data, type |-> ty, calls |-> <<EncodeCall, call>>,
              ai_status |-> st, error |-> FALSE]

RunAiSearch(query_text, search_mode, has_supabase, has_model, status, encode_ok, answer) ==
    IF query_text = <<>> \/ ~has_supabase \/ ~has_model
    THEN [data |-> <<>>, type |-> None, calls |-> <<>>, ai_status |-> status, error |-> FALSE]
    ELSE IF ~encode_ok
    THEN [data |-> <<>>, type |-> None, calls |-> <<EncodeCall>>, ai_status |-> status, error |-> TRUE]
    ELSE LET call == IF search_mode = ModeTitle THEN MatchMapCall ELSE MatchChunksCall
             st   == IF search_mode = ModeTitle THEN StatusTitle ELSE StatusBody
             ty   == IF search_mode = ModeTitle THEN "map" ELSE "chunks"
         IN  IF answer.raises
             THEN [data |-> <<>>, type |-> None, calls |-> <<EncodeCall, call>>,
                   ai_status |-> st, error |-> TRUE]
             ELSE [data |-> answer.data, type |-> ty, calls |-> <<EncodeCall, call>>,
                   ai_status |-> st, error |-> FALSE]

\* ------------------------------------------------------ get_pdf_embed_html
Max(a, b) == IF a >= b THEN a ELSE b
Falsy(url) == url = None \/ url = ""

NoUrlHtml == [kind |-> "no_url"]

\* a faulty variant: the page is not clamped to 1
GetPdfEmbedHtmlNoClamp(pdf_url, page) ==
    IF Falsy(pdf_url) THEN NoUrlHtml
    ELSE [kind |-> "iframe", url |-> pdf_url, page |-> page]

GetPdfEmbedHtml(pdf_url, page) ==
    IF Falsy(pdf_url) THEN NoUrlHtml
    ELSE [kind |-> "iframe", url |-> pdf_url, page |-> Max(1, page)]


\* ------------------------------------------------------------------ state
VARIABLES
    \* st.session_state
    is_authenticated, password, view_mode, current_pdf_url, current_pdf_page,
    ai_status, is_admin,
    \* widget values kept by the framework between runs
    search_mode, search_query, admin_pw,
    \* st.cache_resource of init_connections, st.cache_data of load_map_data
    conn, map_cache,
    \* rows 1..db_rows are in the live regulations_map table
    db_rows,
    \* the text last sent from the login form's password field
    typed,
    \* "idle": the page waits for an event; "run": a script run is due
    pc,
    \* what the last script run did and rendered
    page,
    \* inputs and results of the pure functions applied on their own
    fn_in, fn_out

session == <<is_authenticated, password, view_mode, current_pdf_url, current_pdf_page,
             ai_status, is_admin>>
widgets == <<search_mode, search_query, admin_pw>>
caches == <<conn, map_cache>>
fn == <<fn_in, fn_out>>
vars == <<session, widgets, caches, db_rows, typed, pc, page, fn>>

DefaultMode == ModeTitle

\* a page on which nothing but the screen's own elements was rendered
BlankPage(screen) ==
    [screen |-> screen,             \* where the script run ended
     calls |-> <<>>,                \* external search calls of the run, in order
     searched |-> FALSE,            \* run_ai_search was called
     raised |-> "none",             \* what raised in it: "encode", "rpc", "none"
     ai_results |-> <<>>, result_type |-> None,
     notice |-> "none",             \* the message above the result list
     tree |-> <<>>,                 \* the table whose rows got a tree button
     chunk_items |-> <<>>,          \* per body-text result: button or error
     btn_combined |-> FALSE,
     fullscreen_enabled |-> FALSE,
     viewer |-> [kind |-> "none"],
     admin_input |-> FALSE]

\* an event was sent: the rendered page is replaced by the run that is due
Stale == BlankPage("running")

\* ------------------------------------------------------------- callbacks
\* set_pdf_url(url, page)
SetPdfUrl(url, pg) ==
    /\ current_pdf_url' = url
    /\ current_pdf_page' = pg
    /\ view_mode' = "preview"

\* check_password() with the widget's value already stored under "password"
\* a faulty variant: any non-empty password is accepted
CheckPasswordAny(pw) ==
    IF pw = Absent \/ pw = ""
    THEN is_authenticated' = FALSE /\ password' = pw
    ELSE is_authenticated' = TRUE /\ password' = Absent

CheckPassword(pw) ==
    IF pw = Absent \/ pw = ""
    THEN is_authenticated' = FALSE /\ password' = pw
    ELSE IF pw = CommonPassword
    THEN is_authenticated' = TRUE /\ password' = Absent
    ELSE is_authenticated' = FALSE /\ password' = pw

\* ---------------------------------------------------------------- events
\* the login form's text_input changes: on_change=check_password
EnterPassword ==
    /\ pc = "idle" /\ page.screen = "login"
    /\ \E pw \in Passwords :
          /\ pw # password
          /\ typed' = pw
          /\ CheckPassword(pw)
    /\ pc' = "run" /\ page' = Stale
    /\ UNCHANGED <<view_mode, current_pdf_url, current_pdf_page, ai_status, is_admin,
                   widgets, caches, db_rows, fn>>

\* btn_combined_pdf
ClickCombined ==
    /\ pc = "idle" /\ page.btn_combined
    /\ SetPdfUrl(CombinedPdfUrl, 1)
    /\ pc' = "run" /\ page' = Stale
    /\ UNCHANGED <<is_authenticated, password, ai_status, is_admin,
                   widgets, caches, db_rows, typed, fn>>

\* btn_me_<id> and btn_me_filtered_<id>
ClickTreeItem ==
    /\ pc = "idle"
    /\ \E k \in 1..Len(page.tree) : SetPdfUrl(page.tree[k].pdf_url, 1)
    /\ pc' = "run" /\ page' = Stale
    /\ UNCHANGED <<is_authenticated, password, ai_status, is_admin,
                   widgets, caches, db_rows, typed, fn>>

\* ai_btn_chunk_<id>
ClickChunkButton ==
    /\ pc = "idle"
    /\ \E k \in 1..Len(page.chunk_items) :
          /\ page.chunk_items[k].button
          /\ SetPdfUrl(page.chunk_items[k].url, page.chunk_items[k].page)
    /\ pc' = "run" /\ page' = Stale
    /\ UNCHANGED <<is_authenticated, password, ai_status, is_admin,
                   widgets, caches, db_rows, typed, fn>>

\* the fullscreen button's on_click
ClickFullscreen ==
    /\ pc = "idle" /\ page.fullscreen_enabled
    /\ view_mode' = "fullscreen"
    /\ pc' = "run" /\ page' = Stale
    /\ UNCHANGED <<is_authenticated, password, current_pdf_url, current_pdf_page,
                   ai_status, is_admin, widgets, caches, db_rows, typed, fn>>

\* a faulty variant of the back button: it also clears the selection
ClickBackClears ==
    /\ pc = "idle" /\ page.screen = "fullscreen"
    /\ view_mode' = "preview" /\ current_pdf_url' = None
    /\ pc' = "run" /\ page' = Stale
    /\ UNCHANGED <<is_authenticated, password, current_pdf_page,
                   ai_status, is_admin, widgets, caches, db_rows, typed, fn>>

\* the back button's on_click
ClickBack ==
    /\ pc = "idle" /\ page.screen = "fullscreen"
    /\ view_mode' = "preview"
    /\ pc' = "run" /\ page' = Stale
    /\ UNCHANGED <<is_authenticated, password, current_pdf_url, current_pdf_page,
                   ai_status, is_admin, widgets, caches, db_rows, typed, fn>>

\* the radio and the query text_input are rendered before the result list,
\* so they are there also when the run crashed while merging
NavRendered == page.screen \in {"preview", "crashed"}

ChangeMode ==
    /\ pc = "idle" /\ NavRendered
    /\ \E m \in SearchModes : m # search_mode /\ search_mode' = m
    /\ pc' = "run" /\ page' = Stale
    /\ UNCHANGED <<session, search_query, admin_pw, caches, db_rows, typed, fn>>

ChangeQuery ==
    /\ pc = "idle" /\ NavRendered
    /\ \E q \in SearchQueries : q # search_query /\ search_query' = q
    /\ pc' = "run" /\ page' = Stale
    /\ UNCHANGED <<session, search_mode, admin_pw, caches, db_rows, typed, fn>>

\* the sidebar's admin password text_input changes
EnterAdminPassword ==
    /\ pc = "idle" /\ page.admin_input
    /\ \E pw \in AdminPasswords : pw # admin_pw /\ admin_pw' = pw
    /\ pc' = "run" /\ page' = Stale
    /\ UNCHANGED <<session, search_mode, search_query, caches, db_rows, typed, fn>>

\* admin_sync (not part of the page) adds a row to regulations_map
DbSync ==
    /\ db_rows < MaxId
    /\ db_rows' = db_rows + 1
    /\ UNCHANGED <<session, widgets, caches, typed, pc, page, fn>>


\* ------------------------------------------------- the search result list
\* a faulty variant: the last row wins, and a missing filename falls back
\* to the combined PDF
UrlMapGetLast(map_data, filename) ==
    IF \E k \in 1..Len(map_data) : map_data[k].pdf_filename = filename
    THEN map_data[CHOOSE k \in 1..Len(map_data) :
                    /\ map_data[k].pdf_filename = filename
                    /\ \A j \in (k + 1)..Len(map_data) : map_data[j].pdf_filename # filename].pdf_url
    ELSE CombinedPdfUrl

\* url_map.get(filename): the pdf_url of the first row of map_data with that
\* pdf_filename (drop_duplicates keeps the first), None when there is none
UrlMapGet(map_data, filename) ==
    IF \E k \in 1..Len(map_data) : map_data[k].pdf_filename = filename
    THEN map_data[CHOOSE k \in 1..Len(map_data) :
                    /\ map_data[k].pdf_filename = filename
                    /\ \A j \in 1..(k - 1) : map_data[j].pdf_filename # filename].pdf_url
    ELSE None

\* one body-text result: the button's arguments, or the error message
ChunkItem(map_data, row) ==
    LET pdf_url_to_open == UrlMapGet(map_data, row.pdf_filename)
    IN  [chunk |-> row,
         button |-> ~Falsy(pdf_url_to_open),
         error |-> Falsy(pdf_url_to_open),
         url |-> pdf_url_to_open,
         page |-> row.page_num]

\* Series.str.contains(query): a regular-expression search, in which "." is
\* any character and the other characters of the model stand for themselves
Contains(text, query) ==
    \E off \in 0..(Len(text) - Len(query)) :
        \A k \in 1..Len(query) : query[k] = "." \/ query[k] = text[off + k]

KeywordMask(row, query) ==
    \/ Contains(Lower(row.ch_name), query)
    \/ Contains(Lower(row.std_name), query)
    \/ Contains(Lower(row.me_name), query)
    \/ Contains(Lower(row.std_id), query)
    \/ Contains(Lower(row.me_id), query)

KeywordFilter(map_data, search_query_) ==
    LET Keep(row) == KeywordMask(row, Lower(search_query_))
    IN  SelectSeq(map_data, Keep)

\* map_data[map_data['id'].isin(result_ids)].set_index('id').loc[result_ids]:
\* .loc raises KeyError when a label is not in the index
HasId(map_data, id) == \E k \in 1..Len(map_data) : map_data[k].id = id
RowOfId(map_data, id) == map_data[CHOOSE k \in 1..Len(map_data) : map_data[k].id = id]

MergeIds(map_data, result_ids) ==
    IF \E k \in 1..Len(result_ids) : ~HasId(map_data, result_ids[k])
    THEN [key_error |-> TRUE, df |-> <<>>]
    ELSE [key_error |-> FALSE,
          df |-> [k \in 1..Len(result_ids) |-> RowOfId(map_data, result_ids[k])]]

\* The navigation column of the preview (lines 233-349): what the run calls,
\* shows and offers for the cached table, the widgets' values and what the
\* embedding model and the RPC do when called.
NoSearch(status, tree, notice) ==
    [calls |-> <<>>, searched |-> FALSE, ai_status |-> status, ai_results |-> <<>>,
     result_type |-> None, notice |-> notice, tree |-> tree, chunk_items |-> <<>>,
     crashed |-> FALSE]

Nav(map_data, mode, query, encode_ok, answer) ==
    IF query = <<>> THEN NoSearch(StatusNone, map_data, "none")
    ELSE IF mode = ModeTitle THEN
        LET r == RunAiSearch(query, mode, TRUE, TRUE, StatusPending, encode_ok, answer)
            found == r.data # <<>>
            ids == [k \in 1..Len(r.data) |-> r.data[k].id]
            merged == IF found /\ r.type = "map" THEN MergeIds(map_data, ids)
                      ELSE [key_error |-> FALSE, df |-> r.data]
        IN  [calls |-> r.calls, searched |-> TRUE, ai_status |-> r.ai_status,
             ai_results |-> r.data, result_type |-> r.type,
             notice |-> IF found THEN "found" ELSE "no_results",
             tree |-> merged.df, chunk_items |-> <<>>, crashed |-> merged.key_error]
    ELSE IF mode = ModeBody THEN
        LET r == RunAiSearch(query, mode, TRUE, TRUE, StatusPending, encode_ok, answer)
            found == r.data # <<>>
        IN  [calls |-> r.calls, searched |-> TRUE, ai_status |-> r.ai_status,
             ai_results |-> r.data, result_type |-> r.type,
             notice |-> IF found THEN "found" ELSE "no_results",
             tree |-> <<>>,
             chunk_items |-> [k \in 1..Len(r.data) |-> ChunkItem(map_data, r.data[k])],
             crashed |-> FALSE]
    ELSE
        LET filtered_df == KeywordFilter(map_data, query)
        IN  NoSearch(StatusNone, filtered_df,
                     IF filtered_df = <<>> THEN "no_results" ELSE "found")

\* what the embedding model and the RPC can do in a run that reaches them
NoAnswer == [raises |-> FALSE, data |-> <<>>]
Outcomes(mode, query) ==
    IF query = <<>> \/ mode = ModeKeyword
    THEN {[encode_ok |-> TRUE, answer |-> NoAnswer]}
    ELSE {[encode_ok |-> FALSE, answer |-> NoAnswer]} \cup
         {[encode_ok |-> TRUE, answer |-> a] :
             a \in IF mode = ModeTitle THEN MapAnswersOf[db_rows] ELSE ChunkAnswers}

\* ------------------------------------------------------------ script runs
\* load_map_data under st.cache_data(ttl=600): the cached table, or, when
\* nothing is cached or the entry has expired, a fresh load, which returns
\* an empty table when the query raises or the table is empty
CacheAfter ==
    (IF map_cache.valid THEN {map_cache} ELSE {}) \cup
    {[valid |-> TRUE, df |-> LoadedTable[db_rows]],
     [valid |-> TRUE, df |-> <<>>]}

\* widgets a run does not render lose their value
DropSearchWidgets == search_mode' = DefaultMode /\ search_query' = <<>>

\* lines 141-164: the login form, st.stop()
RunLogin ==
    /\ pc = "run" /\ ~is_authenticated
    /\ page' = BlankPage("login")
    /\ pc' = "idle"
    /\ DropSearchWidgets /\ admin_pw' = ""
    /\ UNCHANGED <<session, caches, db_rows, typed, fn>>

\* lines 169-171: init_connections returned (None, None), now or when cached
RunConnFail ==
    /\ pc = "run" /\ is_authenticated
    /\ conn # "ok" /\ conn' = "failed"
    /\ page' = BlankPage("conn_error")
    /\ pc' = "idle"
    /\ DropSearchWidgets /\ admin_pw' = ""
    /\ UNCHANGED <<session, map_cache, db_rows, typed, fn>>

\* lines 174-176: map_data.empty, st.stop()
RunNoData ==
    /\ pc = "run" /\ is_authenticated
    /\ conn # "failed" /\ conn' = "ok"
    /\ \E c \in CacheAfter : c.df = <<>> /\ map_cache' = c
    /\ page' = BlankPage("no_data")
    /\ pc' = "idle"
    /\ DropSearchWidgets /\ admin_pw' = ""
    /\ UNCHANGED <<session, db_rows, typed, fn>>

\* a faulty variant: the button is never disabled
FullscreenAlwaysEnabled == TRUE

\* line 357: disabled=(st.session_state.current_pdf_url is None)
FullscreenEnabled == current_pdf_url # None

\* lines 352-367 and 190-196: the viewer
Viewer ==
    IF ~Falsy(current_pdf_url)
    THEN GetPdfEmbedHtml(current_pdf_url, current_pdf_page)
    ELSE [kind |-> "info"]

\* a faulty variant: any non-empty admin password is accepted
AdminPanelNoCheck ==
    IF is_admin
    THEN is_admin' = TRUE /\ admin_pw' = "" /\ pc' = "idle"
    ELSE IF admin_pw # ""
    THEN is_admin' = TRUE /\ admin_pw' = admin_pw /\ pc' = "run"
    ELSE is_admin' = FALSE /\ admin_pw' = admin_pw /\ pc' = "idle"

\* lines 369-387: the admin panel, reached when the run did not stop before
AdminPanel ==
    IF is_admin
    THEN is_admin' = TRUE /\ admin_pw' = "" /\ pc' = "idle"
    ELSE IF admin_pw # "" /\ admin_pw = AdminPassword
    THEN is_admin' = TRUE /\ admin_pw' = admin_pw /\ pc' = "run"    \* st.rerun()
    ELSE is_admin' = FALSE /\ admin_pw' = admin_pw /\ pc' = "idle"

\* lines 187-196 and the admin panel
RunFullscreen ==
    /\ pc = "run" /\ is_authenticated
    /\ conn # "failed" /\ conn' = "ok"
    /\ \E c \in CacheAfter : c.df # <<>> /\ map_cache' = c
    /\ view_mode = "fullscreen"
    /\ page' = [BlankPage("fullscreen") EXCEPT !.viewer = Viewer, !.admin_input = ~is_admin]
    /\ DropSearchWidgets
    /\ AdminPanel
    /\ UNCHANGED <<is_authenticated, password, view_mode, current_pdf_url,
                   current_pdf_page, ai_status, db_rows, typed, fn>>

\* lines 198-367 and the admin panel
RunPreview ==
    /\ pc = "run" /\ is_authenticated
    /\ conn # "failed" /\ conn' = "ok"
    /\ view_mode # "fullscreen"
    /\ \E c \in CacheAfter, combined_ok \in BOOLEAN, o \in Outcomes(search_mode, search_query) :
          /\ c.df # <<>> /\ map_cache' = c
          /\ LET nav == Nav(c.df, search_mode, search_query, o.encode_ok, o.answer)
                 shown == [BlankPage("preview") EXCEPT
                              !.calls = nav.calls, !.searched = nav.searched,
                              !.raised = IF ~nav.searched THEN "none"
                                         ELSE IF ~o.encode_ok THEN "encode"
                                         ELSE IF o.answer.raises THEN "rpc" ELSE "none",
                              !.ai_results = nav.ai_results, !.result_type = nav.result_type,
                              !.notice = nav.notice, !.tree = nav.tree,
                              !.chunk_items = nav.chunk_items,
                              !.btn_combined = combined_ok]
             IN  /\ ai_status' = nav.ai_status
                 /\ IF nav.crashed
                    THEN /\ page' = [shown EXCEPT !.screen = "crashed"]
                         /\ is_admin' = is_admin /\ admin_pw' = "" /\ pc' = "idle"
                    ELSE /\ page' = [shown EXCEPT
                                        !.fullscreen_enabled = FullscreenEnabled,
                                        !.viewer = Viewer, !.admin_input = ~is_admin]
                         /\ AdminPanel
    /\ UNCHANGED <<is_authenticated, password, view_mode, current_pdf_url,
                   current_pdf_page, search_mode, search_query, db_rows, typed, fn>>

\* ---------------------------------------------------------- specification
\* the session after its first script run: the login form
Init ==
    /\ is_authenticated = FALSE /\ password = ""
    /\ view_mode = "preview" /\ current_pdf_url = None /\ current_pdf_page = 1
    /\ ai_status = StatusNone /\ is_admin = FALSE
    /\ search_mode = DefaultMode /\ search_query = <<>> /\ admin_pw = ""
    /\ conn = "uncached" /\ map_cache = [valid |-> FALSE, df |-> <<>>]
    /\ db_rows = 0
    /\ typed = ""
    /\ pc = "idle"
    /\ page = BlankPage("login")
    /\ fn_in = [f |-> "none"] /\ fn_out = [f |-> "none"]

Next ==
    \/ EnterPassword
    \/ ClickCombined
    \/ ClickTreeItem
    \/ ClickChunkButton
    \/ ClickFullscreen
    \/ ClickBack
    \/ ChangeMode
    \/ ChangeQuery
    \/ EnterAdminPassword
    \/ DbSync
    \/ RunLogin
    \/ RunConnFail
    \/ RunNoData
    \/ RunFullscreen
    \/ RunPreview

Spec == Init /\ [][Next]_vars


\* ------------------------------------------- the sort key, on its own
\* std_id strings and tables given to create_sort_key and load_map_data
SortChars == {"-", ".", "0", "1", "2", "A", SuperTwo}
RECURSIVE StringsUpTo(_)
StringsUpTo(n) ==
    IF n = 0 THEN {<<>>}
    ELSE LET shorter == StringsUpTo(n - 1)
         IN  shorter \cup {Append(q, c) : q \in shorter, c \in SortChars}

SortStdIds == {<<"1", ".", "2">>, <<"1", ".", "1", "0">>, <<"A", "-", "1", ".", "2">>,
               <<"2">>, <<"A">>, <<"1", ".", SuperTwo>>}
SortMeIds == {<<"1">>, <<"2">>}
SortRowKinds == [std_id : SortStdIds, me_id : SortMeIds]
RECURSIVE TablesOf(_)
TablesOf(n) ==
    IF n = 0 THEN {<<>>}
    ELSE {Append(t, r) : t \in TablesOf(n - 1), r \in SortRowKinds}

NoFn == [f |-> "none"]

InitSort ==
    /\ is_authenticated = FALSE /\ password = ""
    /\ view_mode = "preview" /\ current_pdf_url = None /\ current_pdf_page = 1
    /\ ai_status = StatusNone /\ is_admin = FALSE
    /\ search_mode = DefaultMode /\ search_query = <<>> /\ admin_pw = ""
    /\ conn = "uncached" /\ map_cache = [valid |-> FALSE, df |-> <<>>]
    /\ db_rows = 0
    /\ typed = ""
    /\ pc = "idle"
    /\ page = BlankPage("login")
    /\ fn_out = NoFn
    /\ \/ \E s \in StringsUpTo(MaxLen) : fn_in = [f |-> "create_sort_key", std_id |-> s]
       \/ \E t \in TablesOf(MaxRows) : fn_in = [f |-> "load_map_data", rows |-> t]

ApplyCreateSortKey ==
    /\ fn_in.f = "create_sort_key" /\ fn_out = NoFn
    /\ fn_out' = [f |-> "create_sort_key", key |-> CreateSortKey(fn_in.std_id)]
    /\ UNCHANGED <<session, widgets, caches, db_rows, typed, pc, page, fn_in>>

ApplyLoadMapData ==
    /\ fn_in.f = "load_map_data" /\ fn_out = NoFn
    /\ fn_out' = [f |-> "load_map_data", df |-> LoadMapData(fn_in.rows)]
    /\ UNCHANGED <<session, widgets, caches, db_rows, typed, pc, page, fn_in>>

NextSort == ApplyCreateSortKey \/ ApplyLoadMapData

SpecSort == InitSort /\ [][NextSort]_vars


\* ================================================================ claims

\* ---- helpers of C4: the claimed key, stated by position in the string
SepPositions(s) == {i \in 1..Len(s) : s[i] \in {".", "-"}}
NthSmallest(S, n) == CHOOSE p \in S : Cardinality({q \in S : q < p}) = n - 1
\* the parts of s between its separators
PartsBetween(s) ==
    LET P == SepPositions(s)
        n == Cardinality(P)
        Lo(j) == IF j = 1 THEN 0 ELSE NthSmallest(P, j - 1)
        Hi(j) == IF j = n + 1 THEN Len(s) + 1 ELSE NthSmallest(P, j)
    IN  [j \in 1..(n + 1) |-> SubSeq(s, Lo(j) + 1, Hi(j) - 1)]
AllDecimal(p) == Len(p) > 0 /\ \A i \in 1..Len(p) : p[i] \in {"0", "1", "2"}
RECURSIVE PowerOfTen(_)
PowerOfTen(n) == IF n = 0 THEN 1 ELSE 10 * PowerOfTen(n - 1)
RECURSIVE WeightedSum(_, _)
WeightedSum(p, i) ==
    IF i > Len(p) THEN 0
    ELSE (CASE p[i] = "0" -> 0 [] p[i] = "1" -> 1 [] p[i] = "2" -> 2) * PowerOfTen(Len(p) - i)
         + WeightedSum(p, i + 1)
\* the tuple of the integer values of the all-digit parts, in their order
DigitPartsKey(s) ==
    LET parts == PartsBetween(s)
        D == {j \in 1..Len(parts) : AllDecimal(parts[j])}
    IN  [m \in 1..Cardinality(D) |-> WeightedSum(parts[NthSmallest(D, m)], 1)]
\* some part passes str.isdigit() and is no decimal number
HasNonDecimalDigitPart(s) ==
    LET parts == PartsBetween(s)
    IN  \E j \in 1..Len(parts) :
            /\ Len(parts[j]) > 0
            /\ \A i \in 1..Len(parts[j]) : parts[j][i] \in {"0", "1", "2", SuperTwo}
            /\ \E i \in 1..Len(parts[j]) : parts[j][i] = SuperTwo
FallbackKey(s) == IF HasNonDecimalDigitPart(s) THEN <<0>> ELSE DigitPartsKey(s)
\* a < b for tuples of integers, component by component, a proper prefix first
IntLexLess(a, b) ==
    \E i \in 1..Len(b) :
        /\ i <= Len(a) + 1
        /\ \A k \in 1..(i - 1) : a[k] = b[k]
        /\ i = Len(a) + 1 \/ a[i] < b[i]
\* a < b for strings, by code point
StrLexLess(a, b) ==
    \E i \in 1..Len(b) :
        /\ i <= Len(a) + 1
        /\ \A k \in 1..(i - 1) : a[k] = b[k]
        /\ i = Len(a) + 1 \/ CharOrd(a[i]) < CharOrd(b[i])
Occurrences(t, r) == Cardinality({i \in 1..Len(t) : t[i] = r})
\* df holds the rows of rows, ascending by keys (keys[i] the key of df[i]),
\* rows of equal key ascending by me_id
SortedBy(rows, df, keys) ==
    /\ Len(df) = Len(rows)
    /\ \A i \in 1..Len(rows) : Occurrences(df, rows[i]) = Occurrences(rows, rows[i])
    /\ \A i, j \in 1..Len(df) :
          i < j =>
            /\ ~IntLexLess(keys[j], keys[i])
            /\ keys[j] = keys[i] => ~StrLexLess(df[j].me_id, df[i].me_id)

\* C4 as stated: the sort key of a std_id is the tuple of the integer values
\* of its all-digit parts (split on '.' and '-', in their order, other parts
\* dropped), and load_map_data returns the rows ascending by that key
\* compared numerically component by component, ties broken by me_id.
C4_AsStated ==
    /\ fn_out.f = "create_sort_key" => fn_out.key = DigitPartsKey(fn_in.std_id)
    /\ fn_out.f = "load_map_data" =>
          SortedBy(fn_in.rows, fn_out.df,
                   [i \in 1..Len(fn_out.df) |-> DigitPartsKey(fn_out.df[i].std_id)])

\* C4 amended: as stated, except that the key is (0,) when some part passes
\* str.isdigit() without being a decimal number (int() raises ValueError).
C4_SortKey ==
    /\ fn_out.f = "create_sort_key" => fn_out.key = FallbackKey(fn_in.std_id)
    /\ fn_out.f = "load_map_data" =>
          SortedBy(fn_in.rows, fn_out.df,
                   [i \in 1..Len(fn_out.df) |-> FallbackKey(fn_out.df[i].std_id)])

\* 1.10 is sorted after 1.2, and A-1.2 before 1.2 by its me_id
C4_Witness ==
    /\ fn_out.f = "load_map_data"
    /\ fn_in.rows = << [std_id |-> <<"1", ".", "1", "0">>, me_id |-> <<"2">>],
                       [std_id |-> <<"1", ".", "2">>, me_id |-> <<"2">>],
                       [std_id |-> <<"A", "-", "1", ".", "2">>, me_id |-> <<"1">>] >>
    /\ fn_out.df = << fn_in.rows[3], fn_in.rows[2], fn_in.rows[1] >>

\* ---- helpers of the claims about the session
Rendered == page.screen # "running"
PastGate == page.screen \in {"conn_error", "no_data", "fullscreen", "preview", "crashed"}
RpcCalls == SelectSeq(page.calls, LAMBDA c : c.fn # "encode")
EncodeCalls == SelectSeq(page.calls, LAMBDA c : c.fn = "encode")
InPdfUrlStep == current_pdf_url' # current_pdf_url \/ current_pdf_page' # current_pdf_page
FilenameRows(filename) ==
    {j \in 1..Len(map_cache.df) : map_cache.df[j].pdf_filename = filename}

\* C1: services are connected, the table loaded, a search made and the
\* viewer rendered only in a run that found is_authenticated true at the
\* gate, and is_authenticated is true only after check_password compared
\* an entered password equal to the configured common password; an empty
\* or different password leaves it false.
C1_PasswordGate ==
    /\ (PastGate \/ conn # "uncached" \/ map_cache.valid \/ page.calls # <<>>
            \/ page.searched \/ page.viewer.kind # "none") => is_authenticated
    /\ is_authenticated <=> (typed = "hospital" /\ password = Absent)
    /\ typed \in {"", "wrong"} => ~is_authenticated

C1_Witness ==
    /\ is_authenticated /\ typed = "hospital"
    /\ page.screen = "preview" /\ page.viewer.kind = "iframe" /\ page.calls # <<>>

\* C2: a run makes at most one embedding call and at most one RPC; with a
\* non-empty query the title mode calls only match_map (threshold 0.3,
\* count 10) and tags the result "map", the body mode calls only
\* match_chunks_all (threshold 0.5, count 5) and tags it "chunks"; keyword
\* mode and an empty query make no call.  Thresholds are in tenths.
C2_SearchDispatch ==
    /\ Len(RpcCalls) <= 1 /\ Len(EncodeCalls) <= 1
    /\ RpcCalls # <<>> => page.calls = <<[fn |-> "encode"]>> \o RpcCalls
    /\ page.screen \in {"preview", "crashed"} =>
        /\ (search_query # <<>> /\ search_mode = ModeTitle) =>
              /\ page.searched
              /\ \A k \in 1..Len(RpcCalls) :
                    RpcCalls[k] = [fn |-> "match_map", match_threshold |-> 3, match_count |-> 10]
              /\ page.raised = "none" => (RpcCalls # <<>> /\ page.result_type = "map")
        /\ (search_query # <<>> /\ search_mode = ModeBody) =>
              /\ page.searched
              /\ \A k \in 1..Len(RpcCalls) :
                    RpcCalls[k] = [fn |-> "match_chunks_all", match_threshold |-> 5, match_count |-> 5]
              /\ page.raised = "none" => (RpcCalls # <<>> /\ page.result_type = "chunks")
        /\ (search_query = <<>> \/ search_mode = ModeKeyword) =>
              page.calls = <<>> /\ ~page.searched
    /\ page.screen \notin {"preview", "crashed"} => page.calls = <<>>

C2_Witness ==
    /\ page.screen = "preview" /\ search_mode = ModeBody
    /\ page.calls = <<[fn |-> "encode"],
                      [fn |-> "match_chunks_all", match_threshold |-> 5, match_count |-> 5]>>
    /\ page.result_type = "chunks" /\ Len(page.ai_results) = 2

\* C3: for every non-empty list of ids match_map returns, the table the
\* list is rendered from holds exactly one cached map_data row per returned
\* id, in the order returned, with all columns taken from map_data.
C3_MergeInOrder ==
    (Rendered /\ page.result_type = "map" /\ page.ai_results # <<>>) =>
        /\ Len(page.tree) = Len(page.ai_results)
        /\ \A k \in 1..Len(page.ai_results) :
              /\ k <= Len(page.tree)
              /\ page.tree[k].id = page.ai_results[k].id
              /\ \E j \in 1..Len(map_cache.df) : map_cache.df[j] = page.tree[k]

\* get_pdf_embed_html on its own: the placeholder for an empty or None url,
\* else an iframe of that url on page max(1, page)
C5_Function ==
    \A pg \in -1..3 :
        /\ \A u \in {None, ""} : GetPdfEmbedHtml(u, pg) = [kind |-> "no_url"]
        /\ \A u \in {CombinedPdfUrl, "https://s/a1.pdf"} :
              LET html == GetPdfEmbedHtml(u, pg)
              IN  /\ html.kind = "iframe" /\ html.url = u
                  /\ html.page >= 1 /\ html.page >= pg
                  /\ pg >= 1 => html.page = pg

\* a run that renders the viewer embeds the session's url on a page >= 1,
\* the session's page when that is >= 1
C5_Viewer ==
    page.screen \in {"preview", "fullscreen"} =>
        IF current_pdf_url \in {None, ""}
        THEN page.viewer = [kind |-> "info"]
        ELSE /\ page.viewer.kind = "iframe"
             /\ page.viewer.url = current_pdf_url
             /\ page.viewer.page >= 1
             /\ page.viewer.page >= current_pdf_page
             /\ current_pdf_page >= 1 => page.viewer.page = current_pdf_page

\* the url and page change only by set_pdf_url: a tree item sets its pdf_url
\* and page 1, a body-text result its url and its page_num
C5_Jump ==
    /\ ClickTreeItem =>
          /\ current_pdf_page' = 1
          /\ \E k \in 1..Len(page.tree) : current_pdf_url' = page.tree[k].pdf_url
    /\ ClickChunkButton =>
          \E k \in 1..Len(page.ai_results) :
              /\ page.chunk_items[k].button
              /\ current_pdf_page' = page.ai_results[k].page_num
              /\ current_pdf_url' = page.chunk_items[k].url
    /\ InPdfUrlStep => (ClickTreeItem \/ ClickChunkButton \/ ClickCombined)

\* C5: a non-empty url is embedded as an iframe on page max(1, page), so on
\* a page >= 1 and on the requested page when that is >= 1; an empty or None
\* url gives the placeholder and no iframe; the viewer shows the url and
\* page stored by the last set_pdf_url, which a tree item calls with its
\* pdf_url and page 1 and a body-text result with its url and page_num.
C5_PageJump == [](C5_Function /\ C5_Viewer) /\ [][C5_Jump]_vars

\* a body-text result of page_num 0 was opened: the viewer is on page 1
C5_Witness ==
    /\ page.screen = "preview" /\ current_pdf_page = 0
    /\ page.viewer = [kind |-> "iframe", url |-> current_pdf_url, page |-> 1]

\* run_ai_search on its own: no call and ([], None) when the query is empty
\* or the client or the model is missing; ([], None) when the embedding or
\* the RPC raises, and no RPC after a failed embedding
C6_Function ==
    \A q \in SearchQueries, m \in {ModeTitle, ModeBody}, sb \in BOOLEAN, md \in BOOLEAN,
       ok \in BOOLEAN, a \in ChunkAnswers :
        LET r == RunAiSearch(q, m, sb, md, StatusPending, ok, a)
        IN  /\ (q = <<>> \/ ~sb \/ ~md) => (r.data = <<>> /\ r.type = None /\ r.calls = <<>>)
            /\ (~ok \/ a.raises) => (r.data = <<>> /\ r.type = None)
            /\ ~ok => \A k \in 1..Len(r.calls) : r.calls[k].fn = "encode"

\* a run in which the embedding or the RPC raised shows the no-results
\* message, no result list and no result button
C6_Run ==
    (page.searched /\ page.raised # "none") =>
        /\ page.ai_results = <<>> /\ page.result_type = None
        /\ page.notice = "no_results"
        /\ page.tree = <<>> /\ page.chunk_items = <<>>
        /\ page.screen = "preview"
        /\ Len(RpcCalls) = (IF page.raised = "rpc" THEN 1 ELSE 0)

\* such a run leaves the viewer state alone
C6_Frame ==
    (pc = "run" /\ page'.searched /\ page'.raised # "none") =>
        UNCHANGED <<current_pdf_url, current_pdf_page, view_mode>>

\* C6: run_ai_search returns ([], None) without any call when the query is
\* empty or the client or the model is missing, and ([], None) when the
\* embedding or the RPC raises; the run then shows the no-results message,
\* no result list and no result button, and leaves current_pdf_url,
\* current_pdf_page and view_mode as they were.
C6_FailsClosed == [](C6_Function /\ C6_Run) /\ [][C6_Frame]_vars

\* the RPC raised while a PDF was open on page 3: it still is
C6_Witness ==
    /\ page.searched /\ page.raised = "rpc" /\ page.notice = "no_results"
    /\ current_pdf_url = "https://s/a1.pdf" /\ current_pdf_page = 3
    /\ page.viewer.kind = "iframe"

\* every body-text result has its item; a button only for a filename of
\* map_data, with the pdf_url of one of its rows and the result's page_num
C7_Items ==
    /\ page.result_type = "chunks" => Len(page.chunk_items) = Len(page.ai_results)
    /\ \A k \in 1..Len(page.chunk_items) :
          LET item == page.chunk_items[k]
              rows == FilenameRows(page.ai_results[k].pdf_filename)
          IN  /\ item.chunk = page.ai_results[k]
              /\ item.button =>
                    /\ rows # {}
                    /\ \E j \in rows : item.url = map_cache.df[j].pdf_url
                    /\ item.page = page.ai_results[k].page_num
              /\ rows = {} => (~item.button /\ item.error)
              /\ item.button # item.error

\* a click on a result's button sets the url of a row of its filename and
\* its page_num
C7_Click ==
    ClickChunkButton =>
        \E k \in 1..Len(page.ai_results) :
            /\ page.chunk_items[k].button
            /\ \E j \in FilenameRows(page.ai_results[k].pdf_filename) :
                  current_pdf_url' = map_cache.df[j].pdf_url
            /\ current_pdf_page' = page.ai_results[k].page_num

\* C7: a body-text result gets an open button only if its pdf_filename
\* occurs in map_data; clicking it sets the current PDF to the pdf_url of a
\* map_data row with that pdf_filename and the page to the result's
\* page_num; a result whose filename is not in map_data gets the error
\* message and no button, so it cannot change the viewer state.
C7_ChunkButtons == [](C7_Items) /\ [][C7_Click]_vars

\* one result with a button for page 3, one whose filename is not cached
C7_Witness ==
    /\ Len(page.chunk_items) = 2
    /\ page.chunk_items[1].button /\ page.chunk_items[1].page = 3
    /\ page.chunk_items[2].error
    /\ FilenameRows(page.ai_results[2].pdf_filename) = {}

\* the steps of C8
C8_Step ==
    /\ ClickFullscreen =>
          /\ view_mode' = "fullscreen"
          /\ UNCHANGED <<current_pdf_url, current_pdf_page, is_authenticated>>
    /\ ClickBack =>
          /\ view_mode' = "preview"
          /\ UNCHANGED <<current_pdf_url, current_pdf_page, is_authenticated>>
    /\ pc = "run" =>
          UNCHANGED <<view_mode, current_pdf_url, current_pdf_page, is_authenticated>>
    /\ InPdfUrlStep => view_mode' = "preview"
    /\ (ClickTreeItem \/ ClickChunkButton \/ ClickCombined) => view_mode' = "preview"

\* C8: entering and leaving the fullscreen view changes view_mode only and
\* leaves current_pdf_url, current_pdf_page and is_authenticated alone, in
\* the callback and in the run after it; set_pdf_url leaves view_mode
\* "preview"; view_mode is always "preview" or "fullscreen".
C8_ViewMode == [](view_mode \in {"preview", "fullscreen"}) /\ [][C8_Step]_vars

\* the fullscreen view of the PDF and page chosen in the preview
C8_Witness ==
    /\ view_mode = "fullscreen" /\ page.screen = "fullscreen"
    /\ current_pdf_url = "https://s/a1.pdf" /\ current_pdf_page = 3
    /\ page.viewer = [kind |-> "iframe", url |-> "https://s/a1.pdf", page |-> 3]

\* C9: in every reachable state view_mode = "fullscreen" implies that
\* current_pdf_url is not None; the fullscreen button is enabled only then,
\* and the fullscreen view is rendered only in that mode.
C9_FullscreenHasPdf ==
    /\ view_mode = "fullscreen" => current_pdf_url # None
    /\ page.fullscreen_enabled => current_pdf_url # None
    /\ page.screen = "fullscreen" => view_mode = "fullscreen"

C9_Witness ==
    /\ view_mode = "fullscreen" /\ pc = "idle"
    /\ current_pdf_url = CombinedPdfUrl /\ page.viewer.kind = "iframe"

\* the steps of C10
C10_Step ==
    /\ is_authenticated => is_authenticated'
    /\ is_admin => is_admin'
    /\ (~is_admin /\ is_admin') => (admin_pw = "admin" /\ pc = "run" /\ is_authenticated)
    /\ EnterPassword => ~is_authenticated

\* the states of C10
C10_State ==
    /\ is_admin => is_authenticated
    /\ is_authenticated => page.screen # "login"

\* C10: once is_authenticated is true it stays true, and the login form is
\* not rendered again; is_admin implies is_authenticated; is_admin becomes
\* true only in a run whose admin password field holds the configured
\* admin password.
C10_AuthMonotone == [](C10_State) /\ [][C10_Step]_vars

C10_Witness ==
    /\ is_admin /\ is_authenticated /\ pc = "idle" /\ page.screen = "preview"
    /\ ~page.admin_input

====
